---- MODULE Spec2Model ----
(***************************************************************************)
(* Validation-and-request pipeline of the 1Shot API node client: the       *)
(* Wallets and ContractEvents resource clients, their zod schemas and the  *)
(* injected transport (IOneShotClient.request).                            *)
(*                                                                         *)
(* One client call is followed from its invocation to its settlement: the  *)
(* synchronous prefix of the async method (merge, input parse, query and   *)
(* path construction, client.request) is one action per method; the        *)
(* transport then resolves or rejects, which resumes the method after its  *)
(* await.                                                                  *)
(***************************************************************************)
EXTENDS Integers, Sequences, FiniteSets, TLC

(***************************************************************************)
(* Bounds of the model.                                                    *)
(***************************************************************************)
\* largest number of own keys of a caller-supplied options object
MaxKeys == 2
\* JavaScript numbers are modelled in halves: h stands for h/2, for
\* h in MinHalf..MaxHalf (so 3 is 1.5, 4 is 2, -2 is -1)
MaxHalf == 4

(***************************************************************************)
(* JavaScript values.  An object is the sequence of its own enumerable     *)
(* entries <<key, value>> in enumeration order (string keys only).         *)
(***************************************************************************)
Undef == [t |-> "undefined"]
Null == [t |-> "null"]
Str(s) == [t |-> "string", s |-> s]
Num(h) == [t |-> "number", h |-> h]
Bool(b) == [t |-> "boolean", b |-> b]
Arr(a) == [t |-> "array", a |-> a]
Obj(e) == [t |-> "object", e |-> e]

IsUndef(v) == v.t = "undefined"
IsNull(v) == v.t = "null"

\* the keys of an object, in enumeration order
Keys(o) == [i \in 1..Len(o.e) |-> o.e[i][1]]

\* key in o
Has(o, k) == \E i \in 1..Len(o.e) : o.e[i][1] = k

\* o[k]
Get(o, k) ==
  IF Has(o, k) THEN o.e[CHOOSE i \in 1..Len(o.e) : o.e[i][1] = k][2] ELSE Undef

\* o[k] = v on an object: an existing key keeps its position, a new key is
\* appended
Put(o, k, v) ==
  IF Has(o, k)
    THEN Obj([i \in 1..Len(o.e) |-> IF o.e[i][1] = k THEN <<k, v>> ELSE o.e[i]])
    ELSE Obj(Append(o.e, <<k, v>>))

RECURSIVE PutAll(_, _, _)
PutAll(o, entries, i) ==
  IF i > Len(entries) THEN o
  ELSE PutAll(Put(o, entries[i][1], entries[i][2]), entries, i + 1)

\* { ...first, ...params }: spreading undefined or null adds nothing
Spread(first, params) ==
  IF params.t = "object" THEN PutAll(first, params.e, 1) ELSE first

\* Number.prototype.toString for the halves of the model
NumToString(h) ==
  IF h % 2 = 0 THEN ToString(h \div 2)
  ELSE IF h > 0 THEN ToString((h - 1) \div 2) \o ".5"
  ELSE "-" \o ToString(((0 - h) - 1) \div 2) \o ".5"

\* value.toString()
JsToString(v) ==
  CASE v.t = "string" -> v.s
    [] v.t = "number" -> NumToString(v.h)
    [] v.t = "boolean" -> (IF v.b THEN "true" ELSE "false")
    [] OTHER -> "[object Object]"

\* a JavaScript value used as a condition
Truthy(v) ==
  CASE v.t = "undefined" -> FALSE
    [] v.t = "null" -> FALSE
    [] v.t = "string" -> v.s # ""
    [] v.t = "number" -> v.h # 0
    [] v.t = "boolean" -> v.b
    [] OTHER -> TRUE

(***************************************************************************)
(* Strings of the model.                                                   *)
(***************************************************************************)
Uuid1 == "11111111-1111-4111-8111-111111111111"
Uuid2 == "22222222-2222-4222-8222-222222222222"
NotUuid == "not-a-uuid"

\* z.string().uuid(): of the strings of the model, the ones the uuid
\* pattern accepts
IsUuid(s) == s \in {Uuid1, Uuid2}

\* application/x-www-form-urlencoded serialisation of one name or value, as
\* URLSearchParams.toString applies it; the other strings of the model
\* consist of characters the encoding leaves alone (alphanumerics, - . _)
FormEncode(s) ==
  CASE s = "a b" -> "a+b"
    [] s = "x&y" -> "x%26y"
    [] s = "[object Object]" -> "%5Bobject+Object%5D"
    [] OTHER -> s

RECURSIVE QueryString(_, _)
\* URLSearchParams.toString() of the pairs from the i-th on
QueryString(pairs, i) ==
  IF i > Len(pairs) THEN ""
  ELSE FormEncode(pairs[i][1]) \o "=" \o FormEncode(pairs[i][2])
       \o (IF i < Len(pairs) THEN "&" ELSE "")
       \o QueryString(pairs, i + 1)

(***************************************************************************)
(* zod schemas as data, and schema.parse.                                  *)
(***************************************************************************)
ZString == [k |-> "string", uuid |-> FALSE]
ZUuid == [k |-> "string", uuid |-> TRUE]
\* sign: "any", "positive", "nonnegative" or "zero" (the refine val === 0)
ZNumber(int, sign) == [k |-> "number", int |-> int, sign |-> sign]
ZBoolean == [k |-> "boolean"]
ZEnum(values) == [k |-> "enum", values |-> values]
ZArray(inner) == [k |-> "array", inner |-> inner]
ZRecord(inner) == [k |-> "record", inner |-> inner]
ZObject(shape) == [k |-> "object", shape |-> shape]
ZOptional(inner) == [k |-> "optional", inner |-> inner]
ZNullable(inner) == [k |-> "nullable", inner |-> inner]
\* .optional().nullable()
ZOptNull(inner) == ZNullable(ZOptional(inner))

Ok(v) == [ok |-> TRUE, v |-> v]
Fail == [ok |-> FALSE, v |-> Undef]

SignOk(sign, h) ==
  CASE sign = "positive" -> h > 0
    [] sign = "nonnegative" -> h >= 0
    [] sign = "zero" -> h = 0
    [] OTHER -> TRUE

RECURSIVE Parse(_, _)
RECURSIVE ParseShape(_, _, _, _)
RECURSIVE ParseItems(_, _, _, _)
RECURSIVE ParseEntries(_, _, _, _)

\* ZodObject._parse: the keys of the shape in shape order; a key is set in
\* the result when it is in the input or its parsed value is not undefined;
\* keys outside the shape are stripped
ParseShape(shape, o, i, acc) ==
  IF i > Len(shape) THEN Ok(Obj(acc))
  ELSE LET key == shape[i][1]
           r == Parse(shape[i][2], Get(o, key))
       IN IF ~r.ok THEN Fail
          ELSE ParseShape(shape, o, i + 1,
                 IF Has(o, key) \/ ~IsUndef(r.v)
                   THEN Append(acc, <<key, r.v>>) ELSE acc)

\* ZodArray._parse
ParseItems(inner, a, i, acc) ==
  IF i > Len(a) THEN Ok(Arr(acc))
  ELSE LET r == Parse(inner, a[i])
       IN IF ~r.ok THEN Fail ELSE ParseItems(inner, a, i + 1, Append(acc, r.v))

\* ZodRecord._parse with string keys
ParseEntries(inner, e, i, acc) ==
  IF i > Len(e) THEN Ok(Obj(acc))
  ELSE LET r == Parse(inner, e[i][2])
       IN IF ~r.ok THEN Fail
          ELSE ParseEntries(inner, e, i + 1, Append(acc, <<e[i][1], r.v>>))

\* schema.parse(v): [ok |-> TRUE, v |-> the parsed value], or Fail where
\* parse throws a ZodError
Parse(schema, v) ==
  CASE schema.k = "optional" ->
         (IF IsUndef(v) THEN Ok(Undef) ELSE Parse(schema.inner, v))
    [] schema.k = "nullable" ->
         (IF IsNull(v) THEN Ok(Null) ELSE Parse(schema.inner, v))
    [] schema.k = "string" ->
         (IF v.t = "string" /\ (schema.uuid => IsUuid(v.s)) THEN Ok(v) ELSE Fail)
    [] schema.k = "number" ->
         (IF /\ v.t = "number"
             /\ (schema.int => v.h % 2 = 0)
             /\ SignOk(schema.sign, v.h)
          THEN Ok(v) ELSE Fail)
    [] schema.k = "boolean" -> (IF v.t = "boolean" THEN Ok(v) ELSE Fail)
    [] schema.k = "enum" ->
         (IF v.t = "string" /\ v.s \in schema.values THEN Ok(v) ELSE Fail)
    [] schema.k = "array" ->
         (IF v.t = "array" THEN ParseItems(schema.inner, v.a, 1, <<>>) ELSE Fail)
    [] schema.k = "record" ->
         (IF v.t = "object" THEN ParseEntries(schema.inner, v.e, 1, <<>>) ELSE Fail)
    [] schema.k = "object" ->
         (IF v.t = "object" THEN ParseShape(schema.shape, v, 1, <<>>) ELSE Fail)

\* v satisfies schema
Conforms(schema, v) == Parse(schema, v).ok

(***************************************************************************)
(* validation/wallet.ts                                                    *)
(***************************************************************************)
\* variant: type is a whole number, without the refinement to 0
accountBalanceDetailsSchemaAnyType ==
  ZObject(<< <<"type", ZNumber(TRUE, "any")>>,
             <<"ticker", ZString>>,
             <<"chainId", ZNumber(TRUE, "positive")>>,
             <<"tokenAddress", ZString>>,
             <<"accountAddress", ZString>>,
             <<"balance", ZString>>,
             <<"decimals", ZNumber(TRUE, "nonnegative")>> >>)

accountBalanceDetailsSchema ==
  ZObject(<< <<"type", ZNumber(TRUE, "zero")>>,
             <<"ticker", ZString>>,
             <<"chainId", ZNumber(TRUE, "positive")>>,
             <<"tokenAddress", ZString>>,
             <<"accountAddress", ZString>>,
             <<"balance", ZString>>,
             <<"decimals", ZNumber(TRUE, "nonnegative")>> >>)

walletSchema ==
  ZObject(<< <<"id", ZUuid>>,
             <<"accountAddress", ZString>>,
             <<"businessId", ZNullable(ZUuid)>>,
             <<"userId", ZNullable(ZUuid)>>,
             <<"chainId", ZNumber(TRUE, "positive")>>,
             <<"name", ZString>>,
             <<"description", ZString>>,
             <<"isAdmin", ZBoolean>>,
             <<"accountBalanceDetails", ZNullable(accountBalanceDetailsSchema)>>,
             <<"erc7702ContractAddress", ZNullable(ZString)>>,
             <<"updated", ZNumber(FALSE, "any")>>,
             <<"created", ZNumber(FALSE, "any")>> >>)

walletListSchema ==
  ZObject(<< <<"response", ZArray(walletSchema)>>,
             <<"page", ZNumber(TRUE, "positive")>>,
             <<"pageSize", ZNumber(TRUE, "positive")>>,
             <<"totalResults", ZNumber(TRUE, "nonnegative")>> >>)

listWalletsSchema ==
  ZObject(<< <<"businessId", ZUuid>>,
             <<"chainId", ZOptNull(ZNumber(TRUE, "positive"))>>,
             <<"pageSize", ZOptNull(ZNumber(TRUE, "positive"))>>,
             <<"page", ZOptNull(ZNumber(TRUE, "positive"))>>,
             <<"name", ZOptNull(ZString)>> >>)

\* variant: chainId is a whole number of either sign, as in the contract
\* event schemas
createWalletSchemaAnyInt ==
  ZObject(<< <<"businessId", ZUuid>>,
             <<"chainId", ZNumber(TRUE, "any")>>,
             <<"name", ZString>>,
             <<"description", ZOptNull(ZString)>> >>)

createWalletSchema ==
  ZObject(<< <<"businessId", ZUuid>>,
             <<"chainId", ZNumber(TRUE, "positive")>>,
             <<"name", ZString>>,
             <<"description", ZOptNull(ZString)>> >>)

getWalletSchema ==
  ZObject(<< <<"walletId", ZUuid>>,
             <<"includeBalances", ZOptNull(ZBoolean)>> >>)

updateWalletSchema ==
  ZObject(<< <<"walletId", ZUuid>>,
             <<"name", ZOptNull(ZString)>>,
             <<"description", ZOptNull(ZString)>> >>)

deleteWalletSchema == ZObject(<< <<"walletId", ZUuid>> >>)

\* variant: transferAmount is optional but not nullable
transferWalletSchemaNotNullable ==
  ZObject(<< <<"walletId", ZUuid>>,
             <<"destinationAccountAddress", ZString>>,
             <<"transferAmount", ZOptional(ZString)>>,
             <<"memo", ZOptional(ZString)>> >>)

transferWalletSchema ==
  ZObject(<< <<"walletId", ZUuid>>,
             <<"destinationAccountAddress", ZString>>,
             <<"transferAmount", ZOptNull(ZString)>>,
             <<"memo", ZOptional(ZString)>> >>)

delegationSchema ==
  ZObject(<< <<"id", ZUuid>>,
             <<"businessId", ZUuid>>,
             <<"escrowWalletId", ZUuid>>,
             <<"delegatorAddress", ZString>>,
             <<"startTime", ZNullable(ZNumber(FALSE, "any"))>>,
             <<"endTime", ZNullable(ZNumber(FALSE, "any"))>>,
             <<"contractAddresses", ZOptNull(ZArray(ZString))>>,
             <<"methods", ZOptNull(ZArray(ZString))>>,
             <<"delegationData", ZString>>,
             <<"updated", ZNumber(FALSE, "any")>>,
             <<"created", ZNumber(FALSE, "any")>> >>)

delegationListSchema ==
  ZObject(<< <<"response", ZArray(delegationSchema)>>,
             <<"page", ZNumber(TRUE, "positive")>>,
             <<"pageSize", ZNumber(TRUE, "positive")>>,
             <<"totalResults", ZNumber(TRUE, "nonnegative")>> >>)

listDelegationsSchema ==
  ZObject(<< <<"walletId", ZUuid>>,
             <<"pageSize", ZOptNull(ZNumber(TRUE, "positive"))>>,
             <<"page", ZOptNull(ZNumber(TRUE, "positive"))>> >>)

createDelegationSchema ==
  ZObject(<< <<"walletId", ZUuid>>,
             <<"startTime", ZOptNull(ZNumber(FALSE, "any"))>>,
             <<"endTime", ZOptNull(ZNumber(FALSE, "any"))>>,
             <<"contractAddresses", ZOptNull(ZArray(ZString))>>,
             <<"methods", ZOptNull(ZArray(ZString))>>,
             <<"delegationData", ZString>> >>)

deleteDelegationSchema == ZObject(<< <<"delegationId", ZUuid>> >>)

\* variant: type is any string
getSignatureSchemaAnyType ==
  ZObject(<< <<"walletId", ZUuid>>,
             <<"type", ZString>>,
             <<"contractAddress", ZString>>,
             <<"destinationAddress", ZString>>,
             <<"amount", ZOptNull(ZString)>>,
             <<"validUntil", ZOptNull(ZNumber(FALSE, "any"))>>,
             <<"validAfter", ZOptNull(ZNumber(FALSE, "any"))>>,
             <<"fromAddress", ZOptNull(ZString)>> >>)

getSignatureSchema ==
  ZObject(<< <<"walletId", ZUuid>>,
             <<"type", ZEnum({"erc3009", "permit2"})>>,
             <<"contractAddress", ZString>>,
             <<"destinationAddress", ZString>>,
             <<"amount", ZOptNull(ZString)>>,
             <<"validUntil", ZOptNull(ZNumber(FALSE, "any"))>>,
             <<"validAfter", ZOptNull(ZNumber(FALSE, "any"))>>,
             <<"fromAddress", ZOptNull(ZString)>> >>)

signatureResponseSchema ==
  ZObject(<< <<"signature", ZString>>, <<"data", ZString>> >>)

(***************************************************************************)
(* validation/contractEvent.ts                                             *)
(***************************************************************************)
topicSchema == ZObject(<< <<"name", ZString>>, <<"indexed", ZBoolean>> >>)

contractEventLogSchema ==
  ZObject(<< <<"eventName", ZString>>,
             <<"blockNumber", ZNumber(TRUE, "any")>>,
             <<"transactionHash", ZString>>,
             <<"logIndex", ZNumber(TRUE, "any")>>,
             <<"removed", ZBoolean>>,
             <<"topics", ZRecord(ZString)>> >>)

contractEventSchema ==
  ZObject(<< <<"id", ZUuid>>,
             <<"businessId", ZUuid>>,
             <<"chainId", ZNumber(TRUE, "any")>>,
             <<"contractAddress", ZString>>,
             <<"name", ZString>>,
             <<"description", ZString>>,
             <<"eventName", ZString>>,
             <<"topicHash", ZString>>,
             <<"topics", ZArray(topicSchema)>>,
             <<"updated", ZNumber(TRUE, "any")>>,
             <<"created", ZNumber(TRUE, "any")>> >>)

contractEventListSchema ==
  ZObject(<< <<"response", ZArray(contractEventSchema)>>,
             <<"page", ZNumber(TRUE, "positive")>>,
             <<"pageSize", ZNumber(TRUE, "positive")>>,
             <<"totalResults", ZNumber(TRUE, "nonnegative")>> >>)

createContractEventSchema ==
  ZObject(<< <<"businessId", ZUuid>>,
             <<"chainId", ZNumber(TRUE, "any")>>,
             <<"contractAddress", ZString>>,
             <<"name", ZString>>,
             <<"description", ZString>>,
             <<"eventName", ZString>> >>)

listContractEventsSchema ==
  ZObject(<< <<"businessId", ZUuid>>,
             <<"pageSize", ZOptNull(ZNumber(TRUE, "positive"))>>,
             <<"page", ZOptNull(ZNumber(TRUE, "positive"))>>,
             <<"chainId", ZOptNull(ZNumber(TRUE, "any"))>>,
             <<"name", ZOptNull(ZString)>>,
             <<"status", ZOptNull(ZEnum({"active", "deleted", "all"}))>>,
             <<"contractAddress", ZOptNull(ZString)>>,
             <<"eventName", ZOptNull(ZString)>> >>)

getContractEventSchema == ZObject(<< <<"contractEventId", ZUuid>> >>)

updateContractEventSchema ==
  ZObject(<< <<"name", ZOptional(ZString)>>,
             <<"description", ZOptional(ZString)>> >>)

deleteContractEventSchema == ZObject(<< <<"contractEventId", ZUuid>> >>)

searchContractEventLogsSchema ==
  ZObject(<< <<"startBlock", ZOptNull(ZNumber(TRUE, "any"))>>,
             <<"endBlock", ZOptNull(ZNumber(TRUE, "any"))>>,
             <<"topics", ZOptNull(ZRecord(ZString))>> >>)

contractEventSearchResultSchema ==
  ZObject(<< <<"logs", ZArray(contractEventLogSchema)>>,
             <<"error", ZOptNull(ZString)>>,
             <<"maxResults", ZOptNull(ZNumber(TRUE, "any"))>>,
             <<"startBlock", ZOptNull(ZNumber(TRUE, "any"))>>,
             <<"endBlock", ZOptNull(ZNumber(TRUE, "any"))>> >>)

(***************************************************************************)
(* State of one client call.                                               *)
(***************************************************************************)
VARIABLES
  pc,            \* "idle", "awaiting" (suspended at await client.request), "done"
  op,            \* the method called
  args,          \* the caller's arguments: [id, type, params]
  queryParams,   \* the URLSearchParams of the method: sequence of <<name, value>>
  requests,      \* the calls of client.request: sequence of [method, path, body]
  transport,     \* how client.request settled: [kind, value]
  outputParses,  \* number of response-schema parse calls made
  outcome,       \* how the returned promise settled: [kind, value]
  calls          \* the calls in flight side by side on one client, by slot

vars == <<pc, op, args, queryParams, requests, transport, outputParses, outcome, calls>>

Pending == [kind |-> "pending", value |-> Undef]
\* the promise fulfilled with v
Returned(v) == [kind |-> "returned", value |-> v]
\* the promise rejected with the ZodError of a failed schema.parse
ThrewZodError == [kind |-> "ZodError", value |-> Undef]
\* the promise rejected with e, the error client.request rejected with
ThrewTransport(e) == [kind |-> "TransportError", value |-> e]

Request(method, path, body) == [method |-> method, path |-> path, body |-> body]

\* the synchronous prefix of a method: either the input parse threw, or
\* client.request was called with request
InputRejected == [ok |-> FALSE, queryParams |-> <<>>, request |-> Request("", "", Undef)]
Prepared(qp, request) == [ok |-> TRUE, queryParams |-> qp, request |-> request]

\* queryString ? `${base}?${queryString}` : base
WithQuery(base, qp) ==
  LET queryString == QueryString(qp, 1)
  IN IF queryString # "" THEN base \o "?" \o queryString ELSE base

RECURSIVE AppendEntries(_, _, _)
\* Object.entries(params).forEach(([key, value]) => { if (value != undefined)
\*   queryParams.append(key, value.toString()) })
AppendEntries(qp, e, i) ==
  IF i > Len(e) THEN qp
  ELSE AppendEntries(
         IF ~IsUndef(e[i][2]) /\ ~IsNull(e[i][2])
           THEN Append(qp, <<e[i][1], JsToString(e[i][2])>>) ELSE qp,
         e, i + 1)

\* if (params) { Object.entries(params).forEach(...) }
EntriesQuery(params) ==
  IF Truthy(params) /\ params.t = "object" THEN AppendEntries(<<>>, params.e, 1)
  ELSE <<>>

RECURSIVE AppendPresent(_, _, _, _)
\* for each name of names in turn:
\*   if (validatedParams[name] !== undefined && validatedParams[name] !== null)
\*     queryParams.append(name, validatedParams[name].toString())
AppendPresent(qp, validatedParams, names, i) ==
  IF i > Len(names) THEN qp
  ELSE LET v == Get(validatedParams, names[i])
       IN AppendPresent(
            IF ~IsUndef(v) /\ ~IsNull(v)
              THEN Append(qp, <<names[i], JsToString(v)>>) ELSE qp,
            validatedParams, names, i + 1)

\* return schema.parse(response)
ParsedReturn(schema, response) ==
  LET r == Parse(schema, response)
  IN IF r.ok THEN Returned(r.v) ELSE ThrewZodError

(***************************************************************************)
(* class Wallets                                                           *)
(***************************************************************************)
\* variant: the query is built from the validated object, field by field
WalletsListCallFixedOrder(businessId, params) ==
  LET r == Parse(listWalletsSchema, Spread(Obj(<< <<"businessId", businessId>> >>), params))
      qp == IF r.ok
              THEN AppendPresent(<<>>, r.v, <<"chainId", "pageSize", "page", "name">>, 1)
              ELSE <<>>
  IN IF ~r.ok THEN InputRejected
     ELSE Prepared(qp,
            Request("GET",
              WithQuery("/business/" \o Get(r.v, "businessId").s \o "/wallets", qp),
              Undef))

WalletsListCall(businessId, params) ==
  LET r == Parse(listWalletsSchema, Spread(Obj(<< <<"businessId", businessId>> >>), params))
      qp == EntriesQuery(params)
  IN IF ~r.ok THEN InputRejected
     ELSE Prepared(qp,
            Request("GET",
              WithQuery("/business/" \o Get(r.v, "businessId").s \o "/wallets", qp),
              Undef))

WalletsListReturn(response) == ParsedReturn(walletListSchema, response)

\* variant: the whole validated object is sent as the body
WalletsCreateCallWholeBody(businessId, params) ==
  LET r == Parse(createWalletSchema, Spread(Obj(<< <<"businessId", businessId>> >>), params))
  IN IF ~r.ok THEN InputRejected
     ELSE Prepared(<<>>,
            Request("POST", "/business/" \o Get(r.v, "businessId").s \o "/wallets", r.v))

WalletsCreateCall(businessId, params) ==
  LET r == Parse(createWalletSchema, Spread(Obj(<< <<"businessId", businessId>> >>), params))
  IN IF ~r.ok THEN InputRejected
     ELSE Prepared(<<>>,
            Request("POST",
              "/business/" \o Get(r.v, "businessId").s \o "/wallets",
              Obj(<< <<"chainId", Get(r.v, "chainId")>>,
                     <<"name", Get(r.v, "name")>>,
                     <<"description", Get(r.v, "description")>> >>)))

WalletsCreateReturn(response) == ParsedReturn(walletSchema, response)

WalletsGetCall(walletId, includeBalances) ==
  LET r == Parse(getWalletSchema,
             Obj(<< <<"walletId", walletId>>, <<"includeBalances", includeBalances>> >>))
      qp == IF r.ok THEN AppendPresent(<<>>, r.v, <<"includeBalances">>, 1) ELSE <<>>
  IN IF ~r.ok THEN InputRejected
     ELSE Prepared(qp,
            Request("GET", WithQuery("/wallets/" \o Get(r.v, "walletId").s, qp), Undef))

\* variant: the response is validated, and the response itself is returned
\* in place of the parsed value
WalletsGetReturnRaw(response) ==
  IF Parse(walletSchema, response).ok THEN Returned(response) ELSE ThrewZodError

WalletsGetReturn(response) == ParsedReturn(walletSchema, response)

\* variant: a missing or null description is sent as the empty string
\* (description: validatedParams.description ?? "")
WalletsUpdateCallDefaults(walletId, params) ==
  LET r == Parse(updateWalletSchema, Spread(Obj(<< <<"walletId", walletId>> >>), params))
      description == IF r.ok /\ Get(r.v, "description").t \notin {"undefined", "null"}
                       THEN Get(r.v, "description") ELSE Str("")
  IN IF ~r.ok THEN InputRejected
     ELSE Prepared(<<>>,
            Request("PUT",
              "/wallets/" \o Get(r.v, "walletId").s,
              Obj(<< <<"name", Get(r.v, "name")>>,
                     <<"description", description>> >>)))

WalletsUpdateCall(walletId, params) ==
  LET r == Parse(updateWalletSchema, Spread(Obj(<< <<"walletId", walletId>> >>), params))
  IN IF ~r.ok THEN InputRejected
     ELSE Prepared(<<>>,
            Request("PUT",
              "/wallets/" \o Get(r.v, "walletId").s,
              Obj(<< <<"name", Get(r.v, "name")>>,
                     <<"description", Get(r.v, "description")>> >>)))

\* variant: the response is returned without the output parse
WalletsUpdateReturnUnparsed(response) == Returned(response)

WalletsUpdateReturn(response) == ParsedReturn(walletSchema, response)

\* variant: the identifier goes into the path without the input parse
WalletsDeleteCallUnchecked(walletId) ==
  Prepared(<<>>, Request("DELETE", "/wallets/" \o JsToString(walletId), Undef))

WalletsDeleteCall(walletId) ==
  LET r == Parse(deleteWalletSchema, Obj(<< <<"walletId", walletId>> >>))
  IN IF ~r.ok THEN InputRejected
     ELSE Prepared(<<>>,
            Request("DELETE", "/wallets/" \o Get(r.v, "walletId").s, Undef))

\* return this.client.request(...): the response itself
WalletsDeleteReturn(response) == Returned(response)

WalletsTransferCall(walletId, params) ==
  LET r == Parse(transferWalletSchema, Spread(Obj(<< <<"walletId", walletId>> >>), params))
  IN IF ~r.ok THEN InputRejected
     ELSE Prepared(<<>>,
            Request("POST",
              "/wallets/" \o Get(r.v, "walletId").s \o "/transfer",
              Obj(<< <<"destinationAccountAddress", Get(r.v, "destinationAccountAddress")>>,
                     <<"transferAmount", Get(r.v, "transferAmount")>>,
                     <<"memo", Get(r.v, "memo")>> >>)))

\* return response
\* variant: the response is parsed with a schema of the transaction before
\* it is returned
WalletsTransferReturnParsed(response) ==
  ParsedReturn(ZObject(<< <<"id", ZUuid>> >>), response)

WalletsTransferReturn(response) == Returned(response)

WalletsListDelegationsCall(walletId, params) ==
  LET r == Parse(listDelegationsSchema, Spread(Obj(<< <<"walletId", walletId>> >>), params))
      qp == EntriesQuery(params)
  IN IF ~r.ok THEN InputRejected
     ELSE Prepared(qp,
            Request("GET",
              WithQuery("/wallets/" \o Get(r.v, "walletId").s \o "/delegations", qp),
              Undef))

WalletsListDelegationsReturn(response) == ParsedReturn(delegationListSchema, response)

WalletsCreateDelegationCall(walletId, params) ==
  LET r == Parse(createDelegationSchema, Spread(Obj(<< <<"walletId", walletId>> >>), params))
  IN IF ~r.ok THEN InputRejected
     ELSE Prepared(<<>>,
            Request("POST",
              "/wallets/" \o Get(r.v, "walletId").s \o "/delegations",
              Obj(<< <<"startTime", Get(r.v, "startTime")>>,
                     <<"endTime", Get(r.v, "endTime")>>,
                     <<"contractAddresses", Get(r.v, "contractAddresses")>>,
                     <<"methods", Get(r.v, "methods")>>,
                     <<"delegationData", Get(r.v, "delegationData")>> >>)))

WalletsCreateDelegationReturn(response) == ParsedReturn(delegationSchema, response)

\* variant: the delegation is addressed under the plural /delegations
WalletsDeleteDelegationCallPlural(delegationId) ==
  LET r == Parse(deleteDelegationSchema, Obj(<< <<"delegationId", delegationId>> >>))
  IN IF ~r.ok THEN InputRejected
     ELSE Prepared(<<>>,
            Request("DELETE", "/delegations/" \o Get(r.v, "delegationId").s, Undef))

WalletsDeleteDelegationCall(delegationId) ==
  LET r == Parse(deleteDelegationSchema, Obj(<< <<"delegationId", delegationId>> >>))
  IN IF ~r.ok THEN InputRejected
     ELSE Prepared(<<>>,
            Request("DELETE", "/delegation/" \o Get(r.v, "delegationId").s, Undef))

WalletsDeleteDelegationReturn(response) == Returned(response)

\* variant: amount is appended whenever it is not undefined, null included
WalletsGetSignatureCallNullAmount(walletId, type, params) ==
  LET r == Parse(getSignatureSchema,
             Spread(Obj(<< <<"walletId", walletId>>, <<"type", type>> >>), params))
      required == IF r.ok
                    THEN << <<"contractAddress", Get(r.v, "contractAddress").s>>,
                            <<"destinationAddress", Get(r.v, "destinationAddress").s>> >>
                    ELSE <<>>
      amount == IF r.ok THEN Get(r.v, "amount") ELSE Undef
      withAmount == IF IsUndef(amount) THEN required
                    ELSE Append(required,
                           <<"amount", IF IsNull(amount) THEN "null" ELSE amount.s>>)
      qp == IF r.ok
              THEN AppendPresent(withAmount, r.v,
                     <<"validUntil", "validAfter", "fromAddress">>, 1)
              ELSE <<>>
  IN IF ~r.ok THEN InputRejected
     ELSE Prepared(qp,
            Request("GET",
              "/wallets/" \o Get(r.v, "walletId").s \o "/signature/"
                \o Get(r.v, "type").s \o "?" \o QueryString(qp, 1),
              Undef))

WalletsGetSignatureCall(walletId, type, params) ==
  LET r == Parse(getSignatureSchema,
             Spread(Obj(<< <<"walletId", walletId>>, <<"type", type>> >>), params))
      qp == IF r.ok
              THEN AppendPresent(
                     << <<"contractAddress", Get(r.v, "contractAddress").s>>,
                        <<"destinationAddress", Get(r.v, "destinationAddress").s>> >>,
                     r.v, <<"amount", "validUntil", "validAfter", "fromAddress">>, 1)
              ELSE <<>>
  IN IF ~r.ok THEN InputRejected
     ELSE Prepared(qp,
            Request("GET",
              "/wallets/" \o Get(r.v, "walletId").s \o "/signature/"
                \o Get(r.v, "type").s \o "?" \o QueryString(qp, 1),
              Undef))

WalletsGetSignatureReturn(response) == ParsedReturn(signatureResponseSchema, response)

(***************************************************************************)
(* class ContractEvents                                                    *)
(***************************************************************************)
ContractEventsCreateCall(businessId, params) ==
  LET r == Parse(createContractEventSchema,
             Spread(Obj(<< <<"businessId", businessId>> >>), params))
  IN IF ~r.ok THEN InputRejected
     ELSE Prepared(<<>>,
            Request("POST", "/business/" \o Get(r.v, "businessId").s \o "/events", r.v))

ContractEventsCreateReturn(response) == ParsedReturn(contractEventSchema, response)

\* variant: the query is built from the entries of the caller's options
\* object, in their order
ContractEventsListCallEntries(businessId, params) ==
  LET r == Parse(listContractEventsSchema,
             Spread(Obj(<< <<"businessId", businessId>> >>), params))
      qp == EntriesQuery(params)
  IN IF ~r.ok THEN InputRejected
     ELSE Prepared(qp,
            Request("GET",
              WithQuery("/business/" \o Get(r.v, "businessId").s \o "/events", qp),
              Undef))

ContractEventsListCall(businessId, params) ==
  LET r == Parse(listContractEventsSchema,
             Spread(Obj(<< <<"businessId", businessId>> >>), params))
      qp == IF r.ok
              THEN AppendPresent(<<>>, r.v,
                     <<"pageSize", "page", "chainId", "name", "status",
                       "contractAddress", "eventName">>, 1)
              ELSE <<>>
  IN IF ~r.ok THEN InputRejected
     ELSE Prepared(qp,
            Request("GET",
              WithQuery("/business/" \o Get(r.v, "businessId").s \o "/events", qp),
              Undef))

ContractEventsListReturn(response) == ParsedReturn(contractEventListSchema, response)

ContractEventsGetCall(contractEventId) ==
  LET r == Parse(getContractEventSchema, Obj(<< <<"contractEventId", contractEventId>> >>))
  IN IF ~r.ok THEN InputRejected
     ELSE Prepared(<<>>,
            Request("GET", "/events/" \o Get(r.v, "contractEventId").s, Undef))

ContractEventsGetReturn(response) == ParsedReturn(contractEventSchema, response)

\* the path is built from the contractEventId argument itself
ContractEventsUpdateCall(contractEventId, params) ==
  LET r == Parse(updateContractEventSchema, params)
  IN IF ~r.ok THEN InputRejected
     ELSE Prepared(<<>>,
            Request("PUT", "/events/" \o JsToString(contractEventId), r.v))

ContractEventsUpdateReturn(response) == ParsedReturn(contractEventSchema, response)

ContractEventsDeleteCall(contractEventId) ==
  LET r == Parse(deleteContractEventSchema, Obj(<< <<"contractEventId", contractEventId>> >>))
  IN IF ~r.ok THEN InputRejected
     ELSE Prepared(<<>>,
            Request("DELETE", "/events/" \o Get(r.v, "contractEventId").s, Undef))

\* return response
ContractEventsDeleteReturn(response) == Returned(response)

\* searchContractEventLogsSchema.parse(params || {})
\* variant: params is validated as given, without the `|| {}` default
ContractEventsSearchLogsCallNoDefault(contractEventId, params) ==
  LET r == Parse(searchContractEventLogsSchema, params)
  IN IF ~r.ok THEN InputRejected
     ELSE Prepared(<<>>,
            Request("POST", "/events/" \o JsToString(contractEventId) \o "/search", r.v))

ContractEventsSearchLogsCall(contractEventId, params) ==
  LET r == Parse(searchContractEventLogsSchema,
             IF Truthy(params) THEN params ELSE Obj(<<>>))
  IN IF ~r.ok THEN InputRejected
     ELSE Prepared(<<>>,
            Request("POST", "/events/" \o JsToString(contractEventId) \o "/search", r.v))

ContractEventsSearchLogsReturn(response) ==
  ParsedReturn(contractEventSearchResultSchema, response)

\* the code after `await this.client.request(...)` of the method op
Resume(method, response) ==
  CASE method = "Wallets.list" -> WalletsListReturn(response)
    [] method = "Wallets.create" -> WalletsCreateReturn(response)
    [] method = "Wallets.get" -> WalletsGetReturn(response)
    [] method = "Wallets.update" -> WalletsUpdateReturn(response)
    [] method = "Wallets.delete" -> WalletsDeleteReturn(response)
    [] method = "Wallets.transfer" -> WalletsTransferReturn(response)
    [] method = "Wallets.listDelegations" -> WalletsListDelegationsReturn(response)
    [] method = "Wallets.createDelegation" -> WalletsCreateDelegationReturn(response)
    [] method = "Wallets.deleteDelegation" -> WalletsDeleteDelegationReturn(response)
    [] method = "Wallets.getSignature" -> WalletsGetSignatureReturn(response)
    [] method = "ContractEvents.create" -> ContractEventsCreateReturn(response)
    [] method = "ContractEvents.list" -> ContractEventsListReturn(response)
    [] method = "ContractEvents.get" -> ContractEventsGetReturn(response)
    [] method = "ContractEvents.update" -> ContractEventsUpdateReturn(response)
    [] method = "ContractEvents.delete" -> ContractEventsDeleteReturn(response)
    [] method = "ContractEvents.searchLogs" -> ContractEventsSearchLogsReturn(response)

\* the methods that return the response without parsing it
Unparsed == {"Wallets.delete", "Wallets.transfer", "Wallets.deleteDelegation",
             "ContractEvents.delete"}

\* the response schema of the methods that parse the response
OutputSchema(method) ==
  CASE method \in {"Wallets.create", "Wallets.get", "Wallets.update"} -> walletSchema
    [] method = "Wallets.list" -> walletListSchema
    [] method = "Wallets.listDelegations" -> delegationListSchema
    [] method = "Wallets.createDelegation" -> delegationSchema
    [] method = "Wallets.getSignature" -> signatureResponseSchema
    [] method \in {"ContractEvents.create", "ContractEvents.get",
                   "ContractEvents.update"} -> contractEventSchema
    [] method = "ContractEvents.list" -> contractEventListSchema
    [] method = "ContractEvents.searchLogs" -> contractEventSearchResultSchema

(***************************************************************************)
(* The callers' arguments and the transport's answers.                     *)
(***************************************************************************)
NumValues == {Num(h) : h \in -1..MaxHalf}

\* identifier arguments
Ids == {Str(Uuid1), Str(NotUuid)}

Entries(key, values) == {<<key, v>> : v \in values}

DistinctKeys(e) == \A i, j \in 1..Len(e) : i # j => e[i][1] # e[j][1]

\* the sequences of at most MaxKeys entries of pool with distinct keys
EntrySeqs(pool) ==
  {e \in UNION {[1..n -> pool] : n \in 0..MaxKeys} : DistinctKeys(e)}

\* options objects whose entries come from pool, in every key order
Options(pool) == {Obj(e) : e \in EntrySeqs(pool)}

\* options objects that start with one of the sequences of required
\* entries
OptionsWith(required, pool) ==
  {Obj(req \o e) : req \in required, e \in EntrySeqs(pool)}

\* a key no schema has
ExtraEntries == Entries("after", {Str("x")})

ListWalletsParams ==
  {Undef} \cup
  Options(Entries("chainId", NumValues \cup {Null, Undef})
          \cup Entries("pageSize", {Num(2), Num(3)})
          \cup Entries("page", {Num(4), Num(0), Null})
          \cup Entries("name", {Str("w"), Str("a b"), Str("")})
          \cup Entries("businessId", {Str(Uuid2), Str(NotUuid)})
          \cup ExtraEntries)

CreateWalletParams ==
  OptionsWith({<< <<"chainId", c>>, <<"name", n>> >> :
                 c \in NumValues \cup {Undef}, n \in {Str("w"), Null}},
              Entries("description", {Str("d"), Null, Undef})
              \cup Entries("businessId", {Str(Uuid2)})
              \cup ExtraEntries)

IncludeBalancesValues == {Undef, Null, Bool(TRUE), Bool(FALSE), Str("yes")}

UpdateWalletParams ==
  Options(Entries("name", {Str("w"), Null, Undef, Num(2)})
          \cup Entries("description", {Str("d"), Null})
          \cup Entries("walletId", {Str(Uuid2)})
          \cup ExtraEntries)

TransferWalletParams ==
  OptionsWith({<< <<"destinationAccountAddress", a>> >> : a \in {Str("0xabc"), Undef}},
              Entries("transferAmount", {Str("5"), Null, Undef})
              \cup Entries("memo", {Str("m"), Null})
              \cup Entries("walletId", {Str(Uuid2)})
              \cup ExtraEntries)

ListDelegationsParams ==
  {Undef} \cup
  Options(Entries("pageSize", NumValues \cup {Null, Undef})
          \cup Entries("page", {Num(4), Num(0), Null})
          \cup Entries("walletId", {Str(Uuid2)})
          \cup ExtraEntries)

CreateDelegationParams ==
  OptionsWith({<< <<"delegationData", d>> >> : d \in {Str("{}"), Undef}},
              Entries("startTime", {Num(2), Num(3), Null, Undef})
              \cup Entries("endTime", {Num(4), Null})
              \cup Entries("contractAddresses", {Arr(<<Str("0xabc")>>), Null})
              \cup Entries("methods", {Arr(<<>>)})
              \cup Entries("walletId", {Str(Uuid2)})
              \cup ExtraEntries)

SignatureTypes == {Str("erc3009"), Str("permit2"), Str("eip712")}

GetSignatureParams ==
  OptionsWith({<< <<"contractAddress", Str("0xabc")>>, <<"destinationAddress", d>> >> :
                 d \in {Str("0xdef"), Undef}},
              Entries("amount", {Str("5"), Null, Undef})
              \cup Entries("validUntil", {Num(4), Null})
              \cup Entries("validAfter", {Num(2)})
              \cup Entries("fromAddress", {Str("0xabc")})
              \cup Entries("walletId", {Str(Uuid2)})
              \cup Entries("type", {Str("permit2")})
              \cup ExtraEntries)

CreateContractEventParams ==
  OptionsWith({<< <<"chainId", c>>, <<"contractAddress", Str("0xabc")>>, <<"name", n>>,
                  <<"description", Str("d")>>, <<"eventName", Str("Transfer")>> >> :
                 c \in {Num(2), Num(3), Undef}, n \in {Str("w"), Null}},
              Entries("businessId", {Str(Uuid2)}) \cup ExtraEntries)

ListContractEventsParams ==
  {Undef} \cup
  Options(Entries("pageSize", {Num(2), Num(0)})
          \cup Entries("page", {Num(4), Num(0), Null})
          \cup Entries("chainId", {Num(2), Num(-2), Undef})
          \cup Entries("name", {Str("a b")})
          \cup Entries("status", {Str("active"), Str("deleted"), Str("all"), Str("live")})
          \cup Entries("contractAddress", {Str("0xabc")})
          \cup Entries("eventName", {Str("Transfer")})
          \cup Entries("businessId", {Str(Uuid2)})
          \cup ExtraEntries)

UpdateContractEventParams ==
  {Undef} \cup
  Options(Entries("name", {Str("w"), Null, Undef})
          \cup Entries("description", {Str("d"), Num(2)})
          \cup Entries("contractEventId", {Str(Uuid2)})
          \cup Entries("businessId", {Str(Uuid2)})
          \cup ExtraEntries)

SearchContractEventLogsParams ==
  {Undef, Null} \cup
  Options(Entries("startBlock", {Num(2), Num(3), Null})
          \cup Entries("endBlock", {Num(4), Undef})
          \cup Entries("topics", {Obj(<< <<"from", Str("0xabc")>> >>), Null, Str("t")})
          \cup Entries("contractEventId", {Str(Uuid2)})
          \cup ExtraEntries)

\* values the transport may resolve with
BalanceDetails(type) ==
  Obj(<< <<"type", Num(type)>>, <<"ticker", Str("ETH")>>, <<"chainId", Num(2)>>,
         <<"tokenAddress", Str("")>>, <<"accountAddress", Str("0xabc")>>,
         <<"balance", Str("5")>>, <<"decimals", Num(36)>> >>)

WalletTail(balance) ==
  << <<"accountAddress", Str("0xabc")>>, <<"businessId", Str(Uuid1)>>,
     <<"userId", Null>>, <<"chainId", Num(2)>>, <<"name", Str("w")>>,
     <<"description", Str("d")>>, <<"isAdmin", Bool(FALSE)>>,
     <<"accountBalanceDetails", balance>>, <<"erc7702ContractAddress", Null>>,
     <<"updated", Num(4)>>, <<"created", Num(2)>> >>

WalletOk == Obj(<< <<"id", Str(Uuid1)>> >> \o WalletTail(Null))
WalletWithBalance == Obj(<< <<"id", Str(Uuid1)>> >> \o WalletTail(BalanceDetails(0)))
WalletBadBalance == Obj(<< <<"id", Str(Uuid1)>> >> \o WalletTail(BalanceDetails(2)))
WalletNoId == Obj(WalletTail(Null))
WalletExtra == Obj(<< <<"id", Str(Uuid1)>> >> \o WalletTail(Null) \o << <<"extra", Str("x")>> >>)
\* the same wallet with its keys in another order
WalletReordered == Obj(WalletTail(Null) \o << <<"id", Str(Uuid1)>> >>)
\* a key outside the schema in the balance snapshot
WalletNestedExtra ==
  Obj(<< <<"id", Str(Uuid1)>> >>
      \o WalletTail(Obj(BalanceDetails(0).e \o << <<"usdValue", Str("9")>> >>)))

Paged(items, page) ==
  Obj(<< <<"response", Arr(items)>>, <<"page", Num(page)>>, <<"pageSize", Num(2)>>,
         <<"totalResults", Num(2)>> >>)

DelegationOk ==
  Obj(<< <<"id", Str(Uuid1)>>, <<"businessId", Str(Uuid1)>>,
         <<"escrowWalletId", Str(Uuid2)>>, <<"delegatorAddress", Str("0xabc")>>,
         <<"startTime", Null>>, <<"endTime", Num(4)>>,
         <<"delegationData", Str("{}")>>, <<"updated", Num(4)>>, <<"created", Num(2)>> >>)

SignatureOk == Obj(<< <<"signature", Str("0xabc")>>, <<"data", Str("d")>> >>)

ContractEventOk ==
  Obj(<< <<"id", Str(Uuid1)>>, <<"businessId", Str(Uuid1)>>, <<"chainId", Num(2)>>,
         <<"contractAddress", Str("0xabc")>>, <<"name", Str("w")>>,
         <<"description", Str("d")>>, <<"eventName", Str("Transfer")>>,
         <<"topicHash", Str("0xdef")>>,
         <<"topics", Arr(<< Obj(<< <<"name", Str("from")>>, <<"indexed", Bool(TRUE)>> >>) >>)>>,
         <<"updated", Num(4)>>, <<"created", Num(2)>> >>)

SearchResultOk ==
  Obj(<< <<"logs", Arr(<< Obj(<< <<"eventName", Str("Transfer")>>,
                                <<"blockNumber", Num(4)>>,
                                <<"transactionHash", Str("0xdef")>>,
                                <<"logIndex", Num(0)>>,
                                <<"removed", Bool(FALSE)>>,
                                <<"topics", Obj(<< <<"from", Str("0xabc")>> >>)>> >>) >>)>>,
         <<"error", Null>> >>)

Responses ==
  {WalletOk, WalletWithBalance, WalletBadBalance, WalletNoId, WalletExtra,
   WalletReordered, WalletNestedExtra,
   Paged(<<WalletOk>>, 2), Paged(<<WalletOk, WalletNoId>>, 2), Paged(<<>>, 0),
   Paged(<<WalletWithBalance>>, 2), Paged(<<WalletOk, WalletBadBalance>>, 2),
   DelegationOk, Paged(<<DelegationOk>>, 2), SignatureOk,
   ContractEventOk, Paged(<<ContractEventOk>>, 2), SearchResultOk,
   Obj(<< <<"success", Bool(TRUE)>> >>), Obj(<< <<"success", Str("yes")>> >>),
   Obj(<<>>), Null, Undef, Str("ok")}

\* errors client.request may reject with
TransportErrors == {Str("RequestError"), Str("timeout")}

NoArgs == [id |-> Undef, type |-> Undef, params |-> Undef]

\* the number of calls in flight side by side
MaxCalls == 2

Slots == 1..MaxCalls

\* a slot no call has been made in; seq is the position of the call's
\* request among the client's requests, 0 while it has sent none
IdleCall ==
  [pc |-> "idle", op |-> "", args |-> NoArgs, seq |-> 0,
   transport |-> [kind |-> "none", value |-> Undef], outcome |-> Pending]

NoCalls == [c \in Slots |-> IdleCall]

(***************************************************************************)
(* Actions.                                                                *)
(***************************************************************************)
Init ==
  /\ pc = "idle"
  /\ op = ""
  /\ args = NoArgs
  /\ queryParams = <<>>
  /\ requests = <<>>
  /\ transport = [kind |-> "none", value |-> Undef]
  /\ outputParses = 0
  /\ outcome = Pending
  /\ calls = NoCalls

\* a method is called and runs to its first await, or to the throw of its
\* input parse
Invoke(method, a, call) ==
  /\ op' = method
  /\ args' = a
  /\ queryParams' = call.queryParams
  /\ outputParses' = outputParses
  /\ transport' = transport
  /\ calls' = calls
  /\ IF call.ok
       THEN /\ requests' = Append(requests, call.request)
            /\ pc' = "awaiting"
            /\ outcome' = Pending
       ELSE /\ requests' = requests
            /\ pc' = "done"
            /\ outcome' = ThrewZodError

WalletsList ==
  /\ pc = "idle"
  /\ \E businessId \in Ids, params \in ListWalletsParams :
      Invoke("Wallets.list", [id |-> businessId, type |-> Undef, params |-> params],
             WalletsListCall(businessId, params))

WalletsCreate ==
  /\ pc = "idle"
  /\ \E businessId \in Ids, params \in CreateWalletParams :
      Invoke("Wallets.create", [id |-> businessId, type |-> Undef, params |-> params],
             WalletsCreateCall(businessId, params))

WalletsGet ==
  /\ pc = "idle"
  /\ \E walletId \in Ids, includeBalances \in IncludeBalancesValues :
      Invoke("Wallets.get", [id |-> walletId, type |-> Undef, params |-> includeBalances],
             WalletsGetCall(walletId, includeBalances))

WalletsUpdate ==
  /\ pc = "idle"
  /\ \E walletId \in Ids, params \in UpdateWalletParams :
      Invoke("Wallets.update", [id |-> walletId, type |-> Undef, params |-> params],
             WalletsUpdateCall(walletId, params))

WalletsDelete ==
  /\ pc = "idle"
  /\ \E walletId \in Ids :
      Invoke("Wallets.delete", [id |-> walletId, type |-> Undef, params |-> Undef],
             WalletsDeleteCall(walletId))

WalletsTransfer ==
  /\ pc = "idle"
  /\ \E walletId \in Ids, params \in TransferWalletParams :
      Invoke("Wallets.transfer", [id |-> walletId, type |-> Undef, params |-> params],
             WalletsTransferCall(walletId, params))

WalletsListDelegations ==
  /\ pc = "idle"
  /\ \E walletId \in Ids, params \in ListDelegationsParams :
      Invoke("Wallets.listDelegations", [id |-> walletId, type |-> Undef, params |-> params],
             WalletsListDelegationsCall(walletId, params))

WalletsCreateDelegation ==
  /\ pc = "idle"
  /\ \E walletId \in Ids, params \in CreateDelegationParams :
      Invoke("Wallets.createDelegation", [id |-> walletId, type |-> Undef, params |-> params],
             WalletsCreateDelegationCall(walletId, params))

WalletsDeleteDelegation ==
  /\ pc = "idle"
  /\ \E delegationId \in Ids :
      Invoke("Wallets.deleteDelegation", [id |-> delegationId, type |-> Undef, params |-> Undef],
             WalletsDeleteDelegationCall(delegationId))

WalletsGetSignature ==
  /\ pc = "idle"
  /\ \E walletId \in Ids, type \in SignatureTypes, params \in GetSignatureParams :
      Invoke("Wallets.getSignature", [id |-> walletId, type |-> type, params |-> params],
             WalletsGetSignatureCall(walletId, type, params))

ContractEventsCreate ==
  /\ pc = "idle"
  /\ \E businessId \in Ids, params \in CreateContractEventParams :
      Invoke("ContractEvents.create", [id |-> businessId, type |-> Undef, params |-> params],
             ContractEventsCreateCall(businessId, params))

ContractEventsList ==
  /\ pc = "idle"
  /\ \E businessId \in Ids, params \in ListContractEventsParams :
      Invoke("ContractEvents.list", [id |-> businessId, type |-> Undef, params |-> params],
             ContractEventsListCall(businessId, params))

ContractEventsGet ==
  /\ pc = "idle"
  /\ \E contractEventId \in Ids :
      Invoke("ContractEvents.get", [id |-> contractEventId, type |-> Undef, params |-> Undef],
             ContractEventsGetCall(contractEventId))

ContractEventsUpdate ==
  /\ pc = "idle"
  /\ \E contractEventId \in Ids, params \in UpdateContractEventParams :
      Invoke("ContractEvents.update", [id |-> contractEventId, type |-> Undef, params |-> params],
             ContractEventsUpdateCall(contractEventId, params))

ContractEventsDelete ==
  /\ pc = "idle"
  /\ \E contractEventId \in Ids :
      Invoke("ContractEvents.delete", [id |-> contractEventId, type |-> Undef, params |-> Undef],
             ContractEventsDeleteCall(contractEventId))

ContractEventsSearchLogs ==
  /\ pc = "idle"
  /\ \E contractEventId \in Ids, params \in SearchContractEventLogsParams :
      Invoke("ContractEvents.searchLogs",
             [id |-> contractEventId, type |-> Undef, params |-> params],
             ContractEventsSearchLogsCall(contractEventId, params))

\* client.request resolves: the method resumes after its await and settles
TransportResolve ==
  \E response \in Responses :
    /\ pc = "awaiting"
    /\ pc' = "done"
    /\ transport' = [kind |-> "resolved", value |-> response]
    /\ outcome' = Resume(op, response)
    /\ outputParses' = IF op \in Unparsed THEN outputParses ELSE outputParses + 1
    /\ UNCHANGED <<op, args, queryParams, requests, calls>>

\* variant: a rejected request is sent once more before the call fails
TransportRejectRetry ==
  \E error \in TransportErrors :
    /\ pc = "awaiting"
    /\ transport' = [kind |-> "rejected", value |-> error]
    /\ IF Len(requests) < 2
         THEN /\ requests' = Append(requests, requests[1])
              /\ pc' = "awaiting"
              /\ outcome' = outcome
         ELSE /\ requests' = requests
              /\ pc' = "done"
              /\ outcome' = ThrewTransport(error)
    /\ UNCHANGED <<op, args, queryParams, outputParses, calls>>

\* variant: the transport's error is caught and replaced by another error
TransportRejectWrapped ==
  \E error \in TransportErrors :
    /\ pc = "awaiting"
    /\ pc' = "done"
    /\ transport' = [kind |-> "rejected", value |-> error]
    /\ outcome' = ThrewTransport(Str("Request failed"))
    /\ UNCHANGED <<op, args, queryParams, requests, outputParses, calls>>

\* client.request rejects: no method has a try/catch, the await throws the
\* error out of the method
TransportReject ==
  \E error \in TransportErrors :
    /\ pc = "awaiting"
    /\ pc' = "done"
    /\ transport' = [kind |-> "rejected", value |-> error]
    /\ outcome' = ThrewTransport(error)
    /\ UNCHANGED <<op, args, queryParams, requests, outputParses, calls>>

Next ==
  \/ ContractEventsGet
  \/ ContractEventsUpdate
  \/ ContractEventsDelete
  \/ ContractEventsSearchLogs
  \/ ContractEventsCreate
  \/ ContractEventsList
  \/ WalletsGet
  \/ WalletsDelete
  \/ WalletsDeleteDelegation
  \/ WalletsList
  \/ WalletsCreate
  \/ WalletsUpdate
  \/ WalletsTransfer
  \/ WalletsListDelegations
  \/ WalletsCreateDelegation
  \/ WalletsGetSignature
  \/ TransportResolve
  \/ TransportReject

Spec == Init /\ [][Next]_vars

TypeOK ==
  /\ pc \in {"idle", "awaiting", "done"}
  /\ Len(requests) \in 0..1

(***************************************************************************)
(* Several calls in flight on one client. A method runs from its call to   *)
(* its await without interruption (run to completion), and resumes when    *)
(* its own promise settles; the promises settle in any order. Everything   *)
(* a method reads or writes is a parameter or a const local of the call.   *)
(***************************************************************************)
\* the synchronous prefix of the method called with the arguments a
CallOf(method, a) ==
  CASE method = "Wallets.list" -> WalletsListCall(a.id, a.params)
    [] method = "Wallets.create" -> WalletsCreateCall(a.id, a.params)
    [] method = "Wallets.get" -> WalletsGetCall(a.id, a.params)
    [] method = "Wallets.update" -> WalletsUpdateCall(a.id, a.params)
    [] method = "Wallets.delete" -> WalletsDeleteCall(a.id)
    [] method = "Wallets.transfer" -> WalletsTransferCall(a.id, a.params)
    [] method = "Wallets.listDelegations" -> WalletsListDelegationsCall(a.id, a.params)
    [] method = "Wallets.createDelegation" -> WalletsCreateDelegationCall(a.id, a.params)
    [] method = "Wallets.deleteDelegation" -> WalletsDeleteDelegationCall(a.id)
    [] method = "Wallets.getSignature" -> WalletsGetSignatureCall(a.id, a.type, a.params)
    [] method = "ContractEvents.create" -> ContractEventsCreateCall(a.id, a.params)
    [] method = "ContractEvents.list" -> ContractEventsListCall(a.id, a.params)
    [] method = "ContractEvents.get" -> ContractEventsGetCall(a.id)
    [] method = "ContractEvents.update" -> ContractEventsUpdateCall(a.id, a.params)
    [] method = "ContractEvents.delete" -> ContractEventsDeleteCall(a.id)
    [] method = "ContractEvents.searchLogs" -> ContractEventsSearchLogsCall(a.id, a.params)

\* the calls made side by side
ConcCalls ==
  {[op |-> "Wallets.get",
    args |-> [id |-> Str(Uuid1), type |-> Undef, params |-> Bool(TRUE)]],
   [op |-> "Wallets.list",
    args |-> [id |-> Str(Uuid1), type |-> Undef, params |-> Obj(<< <<"page", Num(4)>> >>)]],
   [op |-> "Wallets.delete",
    args |-> [id |-> Str(Uuid2), type |-> Undef, params |-> Undef]],
   [op |-> "ContractEvents.list",
    args |-> [id |-> Str(Uuid1), type |-> Undef,
              params |-> Obj(<< <<"status", Str("live")>> >>)]],
   [op |-> "ContractEvents.searchLogs",
    args |-> [id |-> Str(Uuid2), type |-> Undef, params |-> Undef]]}

ConcResponses == {WalletOk, Paged(<<WalletOk>>, 2), SearchResultOk}

ConcErrors == {Str("timeout")}

\* a method is called in a free slot and runs to its await (its request is
\* handed to the client) or to the throw of its input parse
ConcInvoke ==
  \E c \in Slots, k \in ConcCalls :
    /\ calls[c].pc = "idle"
    /\ LET call == CallOf(k.op, k.args)
       IN IF call.ok
            THEN /\ requests' = Append(requests, call.request)
                 /\ calls' = [calls EXCEPT ![c] =
                      [@ EXCEPT !.pc = "awaiting", !.op = k.op, !.args = k.args,
                                !.seq = Len(requests) + 1]]
            ELSE /\ requests' = requests
                 /\ calls' = [calls EXCEPT ![c] =
                      [@ EXCEPT !.pc = "done", !.op = k.op, !.args = k.args,
                                !.outcome = ThrewZodError]]
    /\ UNCHANGED <<pc, op, args, queryParams, transport, outputParses, outcome>>

\* the slot of the call that sent the client's latest request
LatestCall == CHOOSE c \in Slots : calls[c].seq = Len(requests)

\* variant: the method in progress is kept in a field of the resource object
\* that each call overwrites, and the code after the await reads it
ConcResolveLatest ==
  \E c \in Slots, response \in ConcResponses :
    /\ calls[c].pc = "awaiting"
    /\ calls' = [calls EXCEPT ![c] =
         [@ EXCEPT !.pc = "done",
                   !.transport = [kind |-> "resolved", value |-> response],
                   !.outcome = Resume(calls[LatestCall].op, response)]]
    /\ UNCHANGED <<pc, op, args, queryParams, requests, transport, outputParses, outcome>>

\* the promise of one awaiting call is fulfilled: that call resumes after
\* its await and settles
ConcResolve ==
  \E c \in Slots, response \in ConcResponses :
    /\ calls[c].pc = "awaiting"
    /\ calls' = [calls EXCEPT ![c] =
         [@ EXCEPT !.pc = "done",
                   !.transport = [kind |-> "resolved", value |-> response],
                   !.outcome = Resume(calls[c].op, response)]]
    /\ UNCHANGED <<pc, op, args, queryParams, requests, transport, outputParses, outcome>>

\* the promise of one awaiting call is rejected: the await throws the error
\* out of that call
ConcReject ==
  \E c \in Slots, error \in ConcErrors :
    /\ calls[c].pc = "awaiting"
    /\ calls' = [calls EXCEPT ![c] =
         [@ EXCEPT !.pc = "done",
                   !.transport = [kind |-> "rejected", value |-> error],
                   !.outcome = ThrewTransport(error)]]
    /\ UNCHANGED <<pc, op, args, queryParams, requests, transport, outputParses, outcome>>

ConcNext ==
  \/ ConcInvoke
  \/ ConcResolve
  \/ ConcReject

SpecConc == Init /\ [][ConcNext]_vars

(***************************************************************************)
(* What each method is called with and validates against.                 *)
(***************************************************************************)
\* the name of the identifier parameter of a method
IdKey(method) ==
  CASE method \in {"Wallets.list", "Wallets.create", "ContractEvents.create",
                   "ContractEvents.list"} -> "businessId"
    [] method = "Wallets.deleteDelegation" -> "delegationId"
    [] method \in {"ContractEvents.get", "ContractEvents.update", "ContractEvents.delete",
                   "ContractEvents.searchLogs"} -> "contractEventId"
    [] OTHER -> "walletId"

\* the schema the method parses its candidate object with
InputSchema(method) ==
  CASE method = "Wallets.list" -> listWalletsSchema
    [] method = "Wallets.create" -> createWalletSchema
    [] method = "Wallets.get" -> getWalletSchema
    [] method = "Wallets.update" -> updateWalletSchema
    [] method = "Wallets.delete" -> deleteWalletSchema
    [] method = "Wallets.transfer" -> transferWalletSchema
    [] method = "Wallets.listDelegations" -> listDelegationsSchema
    [] method = "Wallets.createDelegation" -> createDelegationSchema
    [] method = "Wallets.deleteDelegation" -> deleteDelegationSchema
    [] method = "Wallets.getSignature" -> getSignatureSchema
    [] method = "ContractEvents.create" -> createContractEventSchema
    [] method = "ContractEvents.list" -> listContractEventsSchema
    [] method = "ContractEvents.get" -> getContractEventSchema
    [] method = "ContractEvents.update" -> updateContractEventSchema
    [] method = "ContractEvents.delete" -> deleteContractEventSchema
    [] method = "ContractEvents.searchLogs" -> searchContractEventLogsSchema

\* the candidate object the method builds from the arguments a
Candidate(method, a) ==
  CASE method = "Wallets.get" ->
         Obj(<< <<"walletId", a.id>>, <<"includeBalances", a.params>> >>)
    [] method = "Wallets.getSignature" ->
         Spread(Obj(<< <<"walletId", a.id>>, <<"type", a.type>> >>), a.params)
    [] method = "ContractEvents.update" -> a.params
    [] method = "ContractEvents.searchLogs" ->
         (IF Truthy(a.params) THEN a.params ELSE Obj(<<>>))
    [] OTHER -> Spread(Obj(<< <<IdKey(method), a.id>> >>), a.params)

\* the call in progress passed (or would pass) input validation
ValidInput == Conforms(InputSchema(op), Candidate(op, args))

Called == pc # "idle"

NonGetMethods ==
  {"Wallets.create", "Wallets.update", "Wallets.delete", "Wallets.transfer",
   "Wallets.createDelegation", "Wallets.deleteDelegation",
   "ContractEvents.create", "ContractEvents.update", "ContractEvents.delete",
   "ContractEvents.searchLogs"}

DeleteMethods == {"Wallets.delete", "Wallets.deleteDelegation", "ContractEvents.delete"}

\* the methods that return an entity or a paginated list
EntityMethods ==
  {"Wallets.get", "Wallets.create", "Wallets.update", "Wallets.list",
   "Wallets.listDelegations", "Wallets.createDelegation", "Wallets.getSignature",
   "ContractEvents.create", "ContractEvents.list", "ContractEvents.get",
   "ContractEvents.update", "ContractEvents.searchLogs"}

\* { success: boolean }
successShape == ZObject(<< <<"success", ZBoolean>> >>)

(***************************************************************************)
(* Properties.                                                             *)
(***************************************************************************)

\* C1: in every method of both clients, a candidate object that violates
\* the method's input schema makes the call raise a validation error, and
\* client.request is not called at all for that call.
C1_InvalidInputRaisesBeforeRequest ==
  (Called /\ ~ValidInput) =>
    /\ pc = "done"
    /\ outcome = ThrewZodError
    /\ requests = <<>>
    /\ transport.kind = "none"

C1_Witness ==
  /\ op = "ContractEvents.create"
  /\ IsUuid(args.id.s)
  /\ ~ValidInput
  /\ outcome = ThrewZodError
  /\ requests = <<>>

\* C2 (as claimed): in every method that takes an identifier argument, an
\* identifier that is not a valid UUID makes the call fail locally with a
\* validation error before any request is sent, ContractEvents.update and
\* ContractEvents.searchLogs included.
C2_MalformedIdFailsLocally ==
  (Called /\ ~IsUuid(args.id.s)) =>
    /\ outcome = ThrewZodError
    /\ requests = <<>>

\* C3: no call invokes client.request more than once, whatever its outcome,
\* and a non-GET method called with valid input invokes it exactly once,
\* with a method other than GET.
C3_AtMostOneRequest ==
  /\ Len(requests) <= 1
  /\ (Called /\ ValidInput /\ op \in NonGetMethods) =>
       /\ Len(requests) = 1
       /\ requests[1].method \in {"POST", "PUT", "DELETE"}

C3_Witness ==
  /\ op = "Wallets.transfer"
  /\ ValidInput
  /\ pc = "done"
  /\ transport.kind = "rejected"
  /\ Len(requests) = 1

\* C4 (as claimed): the body passed to client.request never has a key that
\* is a path identifier (businessId, walletId, contractEventId).
C4_NoPathIdInBody ==
  \A i \in 1..Len(requests) :
    requests[i].body.t = "object" =>
      \A key \in {"businessId", "walletId", "contractEventId"} :
        ~Has(requests[i].body, key)

\* the query parameter names the schema of a list method has
FilterFields(method) ==
  IF method = "Wallets.list" THEN {"chainId", "pageSize", "page", "name"}
  ELSE {"pageSize", "page"}

\* C5 (as claimed): every key in the query string of Wallets.list and
\* Wallets.listDelegations is a filter field of the method's input schema; a
\* key of the options object that validation does not retain is never sent.
C5_QueryKeysAreFilterFields ==
  op \in {"Wallets.list", "Wallets.listDelegations"} =>
    \A i \in 1..Len(queryParams) : queryParams[i][1] \in FilterFields(op)

\* C6: in every method that returns an entity or a paginated list, a
\* response that does not conform to the method's output schema makes the
\* call raise a validation error instead of returning, after exactly one
\* request.
C6_BadResponseRaises ==
  (/\ op \in EntityMethods
   /\ transport.kind = "resolved"
   /\ ~Conforms(OutputSchema(op), transport.value)) =>
    /\ outcome = ThrewZodError
    /\ Len(requests) = 1

C6_Witness ==
  /\ op = "Wallets.get"
  /\ transport = [kind |-> "resolved", value |-> WalletNoId]
  /\ outcome = ThrewZodError
  /\ Len(requests) = 1

\* C7 (as claimed): the delete methods validate the response against the
\* {success} shape: a response that is not an object with a boolean success
\* field makes the call raise a validation error.
C7_DeleteValidatesResponse ==
  (/\ op \in DeleteMethods
   /\ transport.kind = "resolved"
   /\ ~Conforms(successShape, transport.value)) =>
    outcome = ThrewZodError

\* C8: when client.request rejects, the call fails with that same error,
\* no response schema is parsed and no second request is made.
C8_TransportErrorUnchanged ==
  transport.kind = "rejected" =>
    /\ pc = "done"
    /\ outcome = ThrewTransport(transport.value)
    /\ outputParses = 0
    /\ Len(requests) = 1

C8_Witness ==
  /\ op = "ContractEvents.searchLogs"
  /\ transport = [kind |-> "rejected", value |-> Str("timeout")]
  /\ outcome = ThrewTransport(Str("timeout"))

\* C9: Wallets.create with valid input makes exactly one request, a POST to
\* /business/{businessId}/wallets (the businessId of the validated input)
\* whose body has exactly the keys chainId, name and description, and a
\* value it returns satisfies the Wallet schema.
C9_CreateWalletRequest ==
  (op = "Wallets.create" /\ ValidInput) =>
    /\ Len(requests) = 1
    /\ requests[1].method = "POST"
    /\ requests[1].path
         = "/business/" \o Get(Candidate(op, args), "businessId").s \o "/wallets"
    /\ requests[1].body.t = "object"
    /\ Len(requests[1].body.e) = 3
    /\ \A key \in {"chainId", "name", "description"} : Has(requests[1].body, key)
    /\ ~Has(requests[1].body, "businessId")
    /\ (outcome.kind = "returned" => Conforms(walletSchema, outcome.value))

C9_Witness ==
  /\ op = "Wallets.create"
  /\ ValidInput
  /\ requests = << Request("POST", "/business/" \o Uuid1 \o "/wallets",
                     Obj(<< <<"chainId", Num(2)>>, <<"name", Str("w")>>,
                            <<"description", Null>> >>)) >>
  /\ outcome = Returned(WalletOk)

RECURSIVE SuppliedPairs(_, _)
\* key=value of the entries of e from the i-th on whose value is neither
\* null nor undefined, in the order of e, joined by &
SuppliedPairs(e, i) ==
  IF i > Len(e) THEN ""
  ELSE LET rest == SuppliedPairs(e, i + 1)
       IN IF e[i][2].t \in {"undefined", "null"} THEN rest
          ELSE e[i][1] \o "=" \o FormEncode(JsToString(e[i][2]))
               \o (IF rest = "" THEN "" ELSE "&" \o rest)

\* C10: the query string of Wallets.list is exactly the entries of the
\* caller's options object whose value is neither null nor undefined, as
\* key=value in the enumeration order of that object; with no such entry
\* the path is /business/{businessId}/wallets without a '?'.
C10_ListWalletsQuery ==
  (op = "Wallets.list" /\ Len(requests) = 1) =>
    LET base == "/business/" \o Get(Candidate(op, args), "businessId").s \o "/wallets"
        query == IF args.params.t = "object" THEN SuppliedPairs(args.params.e, 1) ELSE ""
    IN requests[1].path = IF query = "" THEN base ELSE base \o "?" \o query

C10_Witness ==
  /\ op = "Wallets.list"
  /\ args.params = Obj(<< <<"page", Num(4)>>, <<"chainId", Num(2)>> >>)
  /\ Len(requests) = 1
  /\ requests[1].path = "/business/" \o Uuid1 \o "/wallets?page=2&chainId=1"

C10_WitnessNoFilters ==
  /\ op = "Wallets.list"
  /\ args.params = Obj(<< <<"chainId", Undef>>, <<"page", Null>> >>)
  /\ Len(requests) = 1
  /\ requests[1].path = "/business/" \o Uuid1 \o "/wallets"

\* the candidate object of the call in progress
TheCandidate == Candidate(op, args)

\* a value that is neither null nor undefined
Present(v) == v.t \notin {"undefined", "null"}

RECURSIVE PresentPairs(_, _, _)
\* key=value, joined by &, of the names from the i-th on whose value in the
\* object o is present, in the order of names
PresentPairs(o, names, i) ==
  IF i > Len(names) THEN ""
  ELSE LET rest == PresentPairs(o, names, i + 1)
           v == Get(o, names[i])
       IN IF ~Present(v) THEN rest
          ELSE names[i] \o "=" \o FormEncode(JsToString(v))
               \o (IF rest = "" THEN "" ELSE "&" \o rest)

SignatureOptionalNames == <<"amount", "validUntil", "validAfter", "fromAddress">>

\* C11: every valid Wallets.getSignature call makes one GET to
\* /wallets/{walletId}/signature/{type}; its query string always has
\* contractAddress and destinationAddress, and has amount, validUntil,
\* validAfter and fromAddress exactly when the caller supplied a value that
\* is neither null nor undefined, in that fixed order.
C11_SignatureQuery ==
  (op = "Wallets.getSignature" /\ ValidInput) =>
    LET c == TheCandidate
        optional == PresentPairs(c, SignatureOptionalNames, 1)
    IN /\ Len(requests) = 1
       /\ requests[1].method = "GET"
       /\ requests[1].body = Undef
       /\ requests[1].path
            = "/wallets/" \o Get(c, "walletId").s \o "/signature/" \o Get(c, "type").s
              \o "?contractAddress=" \o FormEncode(Get(c, "contractAddress").s)
              \o "&destinationAddress=" \o FormEncode(Get(c, "destinationAddress").s)
              \o (IF optional = "" THEN "" ELSE "&" \o optional)
       /\ \A name \in {"amount", "validUntil", "validAfter", "fromAddress"} :
            (\E i \in 1..Len(queryParams) : queryParams[i][1] = name)
              <=> (Has(args.params, name) /\ Present(Get(args.params, name)))

C11_Witness ==
  /\ op = "Wallets.getSignature"
  /\ args.params = Obj(<< <<"contractAddress", Str("0xabc")>>,
                          <<"destinationAddress", Str("0xdef")>>,
                          <<"validUntil", Num(4)>>, <<"amount", Str("5")>> >>)
  /\ Len(requests) = 1
  /\ requests[1].path
       = "/wallets/" \o Uuid1 \o "/signature/erc3009"
         \o "?contractAddress=0xabc&destinationAddress=0xdef&amount=5&validUntil=2"

C11_WitnessOmitted ==
  /\ op = "Wallets.getSignature"
  /\ args.params = Obj(<< <<"contractAddress", Str("0xabc")>>,
                          <<"destinationAddress", Str("0xdef")>>,
                          <<"amount", Null>> >>)
  /\ Len(requests) = 1
  /\ requests[1].path
       = "/wallets/" \o Uuid1 \o "/signature/permit2"
         \o "?contractAddress=0xabc&destinationAddress=0xdef"

ContractEventFilterNames ==
  <<"pageSize", "page", "chainId", "name", "status", "contractAddress", "eventName">>

\* C12: the query string of ContractEvents.list has exactly the filter
\* fields present with a value that is neither null nor undefined, always
\* in the order pageSize, page, chainId, name, status, contractAddress,
\* eventName, whatever the key order of the options object; with no present
\* filter the path is /business/{businessId}/events without a '?'.
C12_ListEventsQuery ==
  (op = "ContractEvents.list" /\ Len(requests) = 1) =>
    LET base == "/business/" \o Get(TheCandidate, "businessId").s \o "/events"
        query == IF args.params.t = "object"
                   THEN PresentPairs(args.params, ContractEventFilterNames, 1) ELSE ""
    IN /\ requests[1].method = "GET"
       /\ requests[1].path = IF query = "" THEN base ELSE base \o "?" \o query

C12_Witness ==
  /\ op = "ContractEvents.list"
  /\ args.params = Obj(<< <<"status", Str("active")>>, <<"pageSize", Num(2)>> >>)
  /\ Len(requests) = 1
  /\ requests[1].path = "/business/" \o Uuid1 \o "/events?pageSize=1&status=active"

C12_WitnessNoFilters ==
  /\ op = "ContractEvents.list"
  /\ args.params = Obj(<< <<"page", Null>>, <<"chainId", Undef>> >>)
  /\ Len(requests) = 1
  /\ requests[1].path = "/business/" \o Uuid1 \o "/events"

\* C13: searchLogs(contractEventId) called without params is not rejected:
\* the missing params default to {} before validation, and exactly one POST
\* to /events/{contractEventId}/search with body {} is issued.
C13_SearchLogsDefaultsParams ==
  (op = "ContractEvents.searchLogs" /\ args.params = Undef) =>
    /\ Len(requests) = 1
    /\ requests[1] = Request("POST", "/events/" \o args.id.s \o "/search", Obj(<<>>))
    /\ ~(pc = "done" /\ transport.kind = "none")

C13_Witness ==
  /\ op = "ContractEvents.searchLogs"
  /\ args = [id |-> Str(Uuid1), type |-> Undef, params |-> Undef]
  /\ requests = << Request("POST", "/events/" \o Uuid1 \o "/search", Obj(<<>>)) >>
  /\ outcome = Returned(SearchResultOk)

\* C14: deleteDelegation called with a valid identifier issues exactly one
\* DELETE to /delegation/{delegationId} (singular, no /wallets prefix) and
\* sends no body.
C14_DeleteDelegationRequest ==
  (op = "Wallets.deleteDelegation" /\ IsUuid(JsToString(args.id))) =>
    requests = << Request("DELETE", "/delegation/" \o args.id.s, Undef) >>

C14_Witness ==
  /\ op = "Wallets.deleteDelegation"
  /\ args.id = Str(Uuid1)
  /\ pc = "done"
  /\ requests = << Request("DELETE", "/delegation/" \o Uuid1, Undef) >>

\* the schema declares that it accepts null (.nullable())
RECURSIVE DeclaredNullable(_)
DeclaredNullable(schema) ==
  \/ schema.k = "nullable"
  \/ schema.k = "optional" /\ DeclaredNullable(schema.inner)

\* the fields of the object o that hold null where the object schema
\* declares a field that is not nullable
NullAtNotNullable(schema, o) ==
  {i \in 1..Len(schema.shape) :
     /\ Has(o, schema.shape[i][1])
     /\ IsNull(Get(o, schema.shape[i][1]))
     /\ ~DeclaredNullable(schema.shape[i][2])}

\* the rest of a transfer's input is valid: it conforms once transferAmount
\* holds a string
TransferValidApartFromAmount ==
  Conforms(transferWalletSchema, Put(TheCandidate, "transferAmount", Str("5")))

\* C15 (as claimed): a transfer whose transferAmount is explicitly null
\* fails input validation and issues no request.
C15_NullTransferAmountRejected ==
  (/\ op = "Wallets.transfer"
   /\ Has(TheCandidate, "transferAmount")
   /\ IsNull(Get(TheCandidate, "transferAmount"))) =>
    /\ requests = <<>>
    /\ pc = "done" /\ outcome = ThrewZodError

\* C15 (amended): transferAmount is declared optional and nullable. A
\* transfer that omits it, and one that passes it as null, both pass input
\* validation when the rest of the input is valid, and issue the POST with
\* transferAmount undefined, respectively null, in the body. In every method,
\* null at a field the input schema declares without nullable (memo, for
\* one) fails validation with no request.
C15_NullOnlyWhereNullable ==
  /\ (op = "Wallets.transfer" /\ TransferValidApartFromAmount
      /\ Get(TheCandidate, "transferAmount").t \in {"undefined", "null"}) =>
       /\ Len(requests) = 1
       /\ requests[1].method = "POST"
       /\ requests[1].path = "/wallets/" \o Get(TheCandidate, "walletId").s \o "/transfer"
       /\ Get(requests[1].body, "transferAmount") = Get(TheCandidate, "transferAmount")
  /\ (Called /\ TheCandidate.t = "object"
      /\ NullAtNotNullable(InputSchema(op), TheCandidate) # {}) =>
       /\ requests = <<>>
       /\ pc = "done" /\ outcome = ThrewZodError

C15_Witness ==
  /\ op = "Wallets.transfer"
  /\ args.params = Obj(<< <<"destinationAccountAddress", Str("0xabc")>>,
                          <<"transferAmount", Null>> >>)
  /\ Len(requests) = 1
  /\ requests[1].body = Obj(<< <<"destinationAccountAddress", Str("0xabc")>>,
                               <<"transferAmount", Null>>,
                               <<"memo", Undef>> >>)

C15_WitnessOmitted ==
  /\ op = "Wallets.transfer"
  /\ args.params = Obj(<< <<"destinationAccountAddress", Str("0xabc")>> >>)
  /\ Len(requests) = 1
  /\ Get(requests[1].body, "transferAmount") = Undef

C15_WitnessNullMemo ==
  /\ op = "Wallets.transfer"
  /\ args.id = Str(Uuid1)
  /\ args.params = Obj(<< <<"destinationAccountAddress", Str("0xabc")>>,
                          <<"memo", Null>> >>)
  /\ requests = <<>>
  /\ outcome = ThrewZodError

\* v is supplied and is not a positive whole number
NotPositiveWhole(v) ==
  Present(v) /\ ~(v.t = "number" /\ v.h % 2 = 0 /\ v.h > 0)

\* the methods whose input schema constrains the field to a positive whole
\* number, as the claim lists them
PositiveWholeMethods(field) ==
  CASE field \in {"page", "pageSize"} ->
         {"Wallets.list", "Wallets.listDelegations", "ContractEvents.list"}
    [] field = "chainId" -> {"Wallets.create", "Wallets.list"}

\* C16: numeric constraints are checked before any network activity: a
\* supplied page or pageSize of Wallets.list, Wallets.listDelegations or
\* ContractEvents.list, and a supplied chainId of Wallets.create or
\* Wallets.list, that is not a positive whole number makes the call raise a
\* validation error with zero requests issued.
C16_NumericConstraints ==
  \A field \in {"page", "pageSize", "chainId"} :
    (/\ op \in PositiveWholeMethods(field)
     /\ NotPositiveWhole(Get(TheCandidate, field))) =>
      /\ requests = <<>>
      /\ pc = "done" /\ outcome = ThrewZodError

C16_Witness ==
  /\ op = "Wallets.create"
  /\ args.id = Str(Uuid1)
  /\ args.params = Obj(<< <<"chainId", Num(3)>>, <<"name", Str("w")>> >>)
  /\ requests = <<>>
  /\ outcome = ThrewZodError

C16_WitnessPage ==
  /\ op = "ContractEvents.list"
  /\ args.id = Str(Uuid1)
  /\ args.params = Obj(<< <<"page", Num(0)>> >>)
  /\ requests = <<>>
  /\ outcome = ThrewZodError

C16_WitnessPageSize ==
  /\ op = "Wallets.listDelegations"
  /\ args.id = Str(Uuid1)
  /\ args.params = Obj(<< <<"pageSize", Num(-1)>> >>)
  /\ requests = <<>>
  /\ outcome = ThrewZodError

SignatureTypeLiterals == {Str("erc3009"), Str("permit2")}

StatusLiterals == {Str("active"), Str("deleted"), Str("all")}

InputRejectedLocally == requests = <<>> /\ pc = "done" /\ outcome = ThrewZodError

\* C17: enumerated string fields accept only their listed literals:
\* Wallets.getSignature with a type other than "erc3009" or "permit2", and
\* ContractEvents.list with a status other than "active", "deleted" or
\* "all", raise a validation error and issue no request; each listed
\* literal is accepted (the call, otherwise valid, issues its request).
C17_EnumLiterals ==
  /\ (op = "Wallets.getSignature"
      /\ Get(TheCandidate, "type") \notin SignatureTypeLiterals) => InputRejectedLocally
  /\ (op = "ContractEvents.list"
      /\ Present(Get(TheCandidate, "status"))
      /\ Get(TheCandidate, "status") \notin StatusLiterals) => InputRejectedLocally
  /\ (op = "Wallets.getSignature"
      /\ Get(TheCandidate, "type") \in SignatureTypeLiterals
      /\ Conforms(getSignatureSchema, Put(TheCandidate, "type", Str("erc3009")))) =>
       Len(requests) = 1
  /\ (op = "ContractEvents.list"
      /\ Get(TheCandidate, "status") \in StatusLiterals
      /\ Conforms(listContractEventsSchema, Put(TheCandidate, "status", Null))) =>
       Len(requests) = 1

C17_Witness ==
  /\ op = "Wallets.getSignature"
  /\ args.id = Str(Uuid1)
  /\ args.type = Str("eip712")
  /\ args.params = Obj(<< <<"contractAddress", Str("0xabc")>>,
                          <<"destinationAddress", Str("0xdef")>> >>)
  /\ InputRejectedLocally

C17_WitnessStatusRejected ==
  /\ op = "ContractEvents.list"
  /\ args.id = Str(Uuid1)
  /\ args.params = Obj(<< <<"status", Str("live")>> >>)
  /\ InputRejectedLocally

C17_WitnessTypeAccepted ==
  /\ op = "Wallets.getSignature"
  /\ args.type = Str("erc3009")
  /\ Len(requests) = 1
  /\ outcome = Returned(SignatureOk)

C17_WitnessStatusAccepted ==
  /\ op = "ContractEvents.list"
  /\ args.params = Obj(<< <<"status", Str("deleted")>> >>)
  /\ Len(requests) = 1
  /\ requests[1].path = "/business/" \o Uuid1 \o "/events?status=deleted"

WalletMethods == {"Wallets.get", "Wallets.create", "Wallets.update"}

\* w is a wallet object whose balance snapshot is an object with a type
\* other than 0
NonZeroBalanceType(w) ==
  /\ w.t = "object"
  /\ Get(w, "accountBalanceDetails").t = "object"
  /\ Get(Get(w, "accountBalanceDetails"), "type") # Num(0)

\* w is a wallet object, valid apart from its balance snapshot, whose
\* balance snapshot is null or an otherwise valid snapshot of type 0
ZeroOrNullBalance(w) ==
  /\ w.t = "object"
  /\ Conforms(walletSchema, Put(w, "accountBalanceDetails", Null))
  /\ Get(w, "accountBalanceDetails") \in {Null, BalanceDetails(0)}

\* the wallets of a wallet list response
ListedWallets(response) ==
  IF response.t = "object" /\ Get(response, "response").t = "array"
    THEN {Get(response, "response").a[i] : i \in 1..Len(Get(response, "response").a)}
    ELSE {}

\* C18: a wallet in a response whose balance snapshot has a type other than
\* 0 fails validation, so Wallets.get, create, update (a Wallet) and
\* Wallets.list (a wallet list) raise instead of returning it; a wallet whose
\* balance snapshot has type 0, or is null, is accepted and returned.
C18_BalanceTypeZero ==
  /\ (op \in WalletMethods /\ transport.kind = "resolved"
      /\ NonZeroBalanceType(transport.value)) => outcome = ThrewZodError
  /\ (op = "Wallets.list" /\ transport.kind = "resolved"
      /\ \E w \in ListedWallets(transport.value) : NonZeroBalanceType(w)) =>
       outcome = ThrewZodError
  /\ (op \in WalletMethods /\ transport.kind = "resolved"
      /\ ZeroOrNullBalance(transport.value)) => outcome.kind = "returned"
  /\ (op = "Wallets.list" /\ transport.kind = "resolved"
      /\ transport.value.t = "object"
      /\ Conforms(walletListSchema, Put(transport.value, "response", Arr(<<>>)))
      /\ \A w \in ListedWallets(transport.value) : ZeroOrNullBalance(w)) =>
       outcome.kind = "returned"

C18_Witness ==
  /\ op = "Wallets.get"
  /\ transport = [kind |-> "resolved", value |-> WalletBadBalance]
  /\ Len(requests) = 1
  /\ outcome = ThrewZodError

C18_WitnessList ==
  /\ op = "Wallets.list"
  /\ transport = [kind |-> "resolved", value |-> Paged(<<WalletOk, WalletBadBalance>>, 2)]
  /\ outcome = ThrewZodError

C18_WitnessZero ==
  /\ op = "Wallets.update"
  /\ transport = [kind |-> "resolved", value |-> WalletWithBalance]
  /\ outcome = Returned(WalletWithBalance)

C18_WitnessNull ==
  /\ op = "Wallets.list"
  /\ transport = [kind |-> "resolved", value |-> Paged(<<WalletOk>>, 2)]
  /\ outcome = Returned(Paged(<<WalletOk>>, 2))

\* the set of the keys of the object o
KeySet(o) == {o.e[i][1] : i \in 1..Len(o.e)}

RECURSIVE DeepEqual(_, _)
\* structural equality of two values: objects are equal when they have the
\* same keys with equal values, whatever the order of the keys
DeepEqual(a, b) ==
  IF a.t = "object" /\ b.t = "object"
    THEN /\ KeySet(a) = KeySet(b)
         /\ \A k \in KeySet(a) : DeepEqual(Get(a, k), Get(b, k))
  ELSE IF a.t = "array" /\ b.t = "array"
    THEN /\ Len(a.a) = Len(b.a)
         /\ \A i \in 1..Len(a.a) : DeepEqual(a.a[i], b.a[i])
  ELSE a = b

ShapeKeys(schema) == {schema.shape[i][1] : i \in 1..Len(schema.shape)}

\* the wallet w has no key outside the Wallet schema, in itself or in its
\* balance snapshot
OnlyWalletKeySet(w) ==
  /\ KeySet(w) \subseteq ShapeKeys(walletSchema)
  /\ Get(w, "accountBalanceDetails").t = "object" =>
       KeySet(Get(w, "accountBalanceDetails")) \subseteq ShapeKeys(accountBalanceDetailsSchema)

\* the wallets out and in agree on every key of the Wallet schema
AgreeOnWalletKeySet(out, in) ==
  /\ \A k \in ShapeKeys(walletSchema) \ {"accountBalanceDetails"} :
       DeepEqual(Get(out, k), Get(in, k))
  /\ LET bo == Get(out, "accountBalanceDetails")
         bi == Get(in, "accountBalanceDetails")
     IN IF bi.t = "object"
          THEN /\ bo.t = "object"
               /\ \A k \in ShapeKeys(accountBalanceDetailsSchema) :
                    DeepEqual(Get(bo, k), Get(bi, k))
          ELSE bo = bi

\* a wallet method has validated a response that satisfies the Wallet schema
ValidatedConformingWallet ==
  /\ op \in WalletMethods
  /\ transport.kind = "resolved"
  /\ Conforms(walletSchema, transport.value)

\* C19 (as claimed): for every object that satisfies the Wallet schema,
\* validating it succeeds and returns an object equal to the input, and
\* validating the result again returns the same object.
C19_ValidationIsNoOp ==
  ValidatedConformingWallet =>
    /\ outcome.kind = "returned"
    /\ DeepEqual(outcome.value, transport.value)
    /\ Parse(walletSchema, outcome.value) = Ok(outcome.value)

\* C19 (amended): for every object that satisfies the Wallet schema,
\* validating it succeeds and returns the input without the keys the schema
\* does not declare (in the wallet and in its balance snapshot): the result
\* agrees with the input on every declared key and has no other key, so it
\* equals the input exactly when the input has no undeclared key; validating
\* the result again returns the same object.
C19_ValidationStripsUnknownKeys ==
  ValidatedConformingWallet =>
    /\ outcome.kind = "returned"
    /\ AgreeOnWalletKeySet(outcome.value, transport.value)
    /\ OnlyWalletKeySet(outcome.value)
    /\ DeepEqual(outcome.value, transport.value) <=> OnlyWalletKeySet(transport.value)
    /\ Parse(walletSchema, outcome.value) = Ok(outcome.value)

C19_Witness ==
  /\ op = "Wallets.get"
  /\ transport = [kind |-> "resolved", value |-> WalletExtra]
  /\ outcome = Returned(WalletOk)

C19_WitnessNested ==
  /\ op = "Wallets.create"
  /\ transport = [kind |-> "resolved", value |-> WalletNestedExtra]
  /\ outcome = Returned(WalletWithBalance)

C19_WitnessEqual ==
  /\ op = "Wallets.get"
  /\ transport = [kind |-> "resolved", value |-> WalletReordered]
  /\ outcome = Returned(WalletOk)

\* what the call (method, a) does when it is the only call made: the
\* request it sends, if any, and how it settles once client.request has
\* settled as t
AloneRequests(method, a) ==
  IF CallOf(method, a).ok THEN << CallOf(method, a).request >> ELSE <<>>

AloneOutcome(method, a, t) ==
  IF ~CallOf(method, a).ok THEN ThrewZodError
  ELSE CASE t.kind = "none" -> Pending
         [] t.kind = "resolved" -> Resume(method, t.value)
         [] t.kind = "rejected" -> ThrewTransport(t.value)

\* the requests of the client that the call in slot c sent
SentBy(c) ==
  IF calls[c].seq = 0 THEN <<>> ELSE << requests[calls[c].seq] >>

\* C20: calls through the same client do not interfere: with two calls in
\* flight side by side, under every interleaving of their synchronous parts
\* and of the settling of their requests, the request (method, path, body)
\* each call sends and the outcome it returns or raises are those of the
\* same call made alone, and the client receives no other request.
C20_NoInterference ==
  /\ \A c \in Slots :
       calls[c].pc # "idle" =>
         /\ SentBy(c) = AloneRequests(calls[c].op, calls[c].args)
         /\ calls[c].outcome = AloneOutcome(calls[c].op, calls[c].args, calls[c].transport)
  /\ Len(requests) = Cardinality({c \in Slots : calls[c].seq # 0})
  /\ \A c, d \in Slots : (c # d /\ calls[c].seq # 0) => calls[c].seq # calls[d].seq

C20_Witness ==
  /\ calls[1].op = "Wallets.get" /\ calls[2].op = "Wallets.list"
  /\ calls[1].seq = 1 /\ calls[2].seq = 2
  /\ calls[1].pc = "done" /\ calls[2].pc = "done"
  /\ calls[1].outcome = Returned(WalletOk)
  /\ calls[2].outcome = Returned(Paged(<<WalletOk>>, 2))
  /\ requests[1].path = "/wallets/" \o Uuid1 \o "?includeBalances=true"
  /\ requests[2].path = "/business/" \o Uuid1 \o "/wallets?page=2"

C20_WitnessOutOfOrder ==
  /\ calls[1].op = "Wallets.get" /\ calls[2].op = "Wallets.delete"
  /\ calls[1].seq = 1 /\ calls[2].seq = 2
  /\ calls[1].pc = "awaiting"
  /\ calls[2].pc = "done" /\ calls[2].outcome = ThrewTransport(Str("timeout"))

TransferBodyKeys == {"destinationAccountAddress", "transferAmount", "memo"}

\* C21: Wallets.transfer is a pass-through on output: for valid input it
\* makes one POST to /wallets/{walletId}/transfer whose body has the keys
\* destinationAccountAddress, transferAmount and memo only, with the
\* validated values, and whatever value the transport resolves with is
\* returned unchanged, without an output parse.
C21_TransferPassThrough ==
  (op = "Wallets.transfer" /\ ValidInput) =>
    /\ Len(requests) = 1
    /\ requests[1].method = "POST"
    /\ requests[1].path = "/wallets/" \o Get(TheCandidate, "walletId").s \o "/transfer"
    /\ KeySet(requests[1].body) = TransferBodyKeys
    /\ \A k \in TransferBodyKeys : Get(requests[1].body, k) = Get(TheCandidate, k)
    /\ transport.kind = "resolved" =>
         /\ outcome = Returned(transport.value)
         /\ outputParses = 0

C21_Witness ==
  /\ op = "Wallets.transfer"
  /\ args.id = Str(Uuid1)
  /\ args.params = Obj(<< <<"destinationAccountAddress", Str("0xabc")>>,
                          <<"memo", Str("m")>>, <<"after", Str("x")>> >>)
  /\ requests = << Request("POST", "/wallets/" \o Uuid1 \o "/transfer",
                     Obj(<< <<"destinationAccountAddress", Str("0xabc")>>,
                            <<"transferAmount", Undef>>,
                            <<"memo", Str("m")>> >>)) >>
  /\ transport = [kind |-> "resolved", value |-> Str("ok")]
  /\ outcome = Returned(Str("ok"))

C21_WitnessNull ==
  /\ op = "Wallets.transfer"
  /\ Len(requests) = 1
  /\ transport = [kind |-> "resolved", value |-> Null]
  /\ outcome = Returned(Null)

\* the optional fields of the body of a create or update method
OptionalBodyFields(method) ==
  CASE method = "Wallets.create" -> {"description"}
    [] method = "Wallets.update" -> {"name", "description"}
    [] method = "Wallets.createDelegation" ->
         {"startTime", "endTime", "contractAddresses", "methods"}

\* C22: optional body fields keep their three states: in a valid call of
\* Wallets.create, Wallets.update or Wallets.createDelegation, an optional
\* field supplied as null is null in the body, one supplied with a value has
\* that value, and one that is absent (or undefined) has no defined value in
\* the body.
C22_ThreeStates ==
  (op \in {"Wallets.create", "Wallets.update", "Wallets.createDelegation"}
   /\ ValidInput) =>
    /\ Len(requests) = 1
    /\ \A k \in OptionalBodyFields(op) :
         LET supplied == Get(TheCandidate, k)
             sent == Get(requests[1].body, k)
         IN /\ IsNull(supplied) => IsNull(sent)
            /\ Present(supplied) => sent = supplied
            /\ IsUndef(supplied) => IsUndef(sent)

C22_Witness ==
  /\ op = "Wallets.update"
  /\ args.id = Str(Uuid1)
  /\ args.params = Obj(<< <<"name", Null>> >>)
  /\ requests = << Request("PUT", "/wallets/" \o Uuid1,
                     Obj(<< <<"name", Null>>, <<"description", Undef>> >>)) >>

C22_WitnessValue ==
  /\ op = "Wallets.createDelegation"
  /\ args.params = Obj(<< <<"delegationData", Str("{}")>>, <<"startTime", Null>>,
                          <<"endTime", Num(4)>> >>)
  /\ Len(requests) = 1
  /\ Get(requests[1].body, "startTime") = Null
  /\ Get(requests[1].body, "endTime") = Num(4)
  /\ Get(requests[1].body, "methods") = Undef

C22_WitnessCreate ==
  /\ op = "Wallets.create"
  /\ args.params = Obj(<< <<"chainId", Num(2)>>, <<"name", Str("w")>>,
                          <<"description", Null>> >>)
  /\ Len(requests) = 1
  /\ Get(requests[1].body, "description") = Null

\* the methods that merge an identifier argument with an options object
MergingMethods ==
  {"Wallets.list", "Wallets.create", "Wallets.update", "Wallets.transfer",
   "Wallets.listDelegations", "Wallets.createDelegation", "Wallets.getSignature",
   "ContractEvents.create", "ContractEvents.list"}

\* the path of the method's request, before the query string, with id as
\* its identifier segment
PathWithId(method, id) ==
  CASE method \in {"Wallets.list", "Wallets.create"} -> "/business/" \o id \o "/wallets"
    [] method = "Wallets.update" -> "/wallets/" \o id
    [] method = "Wallets.transfer" -> "/wallets/" \o id \o "/transfer"
    [] method \in {"Wallets.listDelegations", "Wallets.createDelegation"} ->
         "/wallets/" \o id \o "/delegations"
    [] method = "Wallets.getSignature" ->
         "/wallets/" \o id \o "/signature/" \o Get(TheCandidate, "type").s
    [] method \in {"ContractEvents.create", "ContractEvents.list"} ->
         "/business/" \o id \o "/events"

\* C23 (as claimed): in every method that merges an identifier argument with
\* the caller's options object, the identifier segment of the request path
\* is the identifier argument the caller passed, whatever keys the options
\* object has, a key named like the identifier included.
C23_PathIdIsArgument ==
  (op \in MergingMethods /\ Len(requests) = 1) =>
    requests[1].path = WithQuery(PathWithId(op, JsToString(args.id)), queryParams)

\* what the code does: the identifier segment is the identifier of the
\* merged object, where a key of the options object named like the
\* identifier has replaced the argument
C23_PathIdIsMergedId ==
  (op \in MergingMethods /\ Len(requests) = 1) =>
    requests[1].path =
      WithQuery(PathWithId(op, Get(TheCandidate, IdKey(op)).s), queryParams)

====
